---- MODULE Spec2Model ----
(***************************************************************************)
(* Model of scripts/generate-behavior-model.py: the scanners that read the *)
(* Smithy primary document and the overlay documents, and the assembler    *)
(* build_behavior_model that merges their results into the behavior model. *)
(*                                                                         *)
(* Text is modelled at the level the regular expressions see it.  The      *)
(* primary document is a sequence of top-level items (an annotation line,  *)
(* a documentation line, an operation, a structure, a scalar type); an     *)
(* overlay document is a sequence of apply statements whose body is a      *)
(* sequence of key:value items.  Lexemes are sequences of characters, so   *)
(* that str.isdigit() and int() are computed, not assumed.                 *)
(***************************************************************************)
EXTENDS Integers, Sequences, FiniteSets, TLC

VARIABLES
    pc,               \* position in build_behavior_model
    main_spec,        \* text of basecamp.smithy (sequence of items)
    overlay_files,    \* overlays/*.smithy in glob order: [name, content]
    idx,              \* index of the next overlay file of the loop
    operations,       \* dict: op name -> dict of traits (the accumulator)
    doc_pagination,   \* dict: op name -> pagination descriptor
    sensitive_types,  \* set of type names
    redaction_rules,  \* dict: structure name -> list of paths
    behavior_model    \* the returned model (NoModel until it is built)

vars == <<pc, main_spec, overlay_files, idx, operations, doc_pagination,
          sensitive_types, redaction_rules, behavior_model>>

-----------------------------------------------------------------------------
(* Python values and dicts *)

PyStr(cs) == [kind |-> "str", s |-> cs, n |-> 0, b |-> FALSE]
PyInt(i) == [kind |-> "int", s |-> <<>>, n |-> i, b |-> FALSE]
PyBool(v) == [kind |-> "bool", s |-> <<>>, n |-> 0, b |-> v]
PyTrue == PyBool(TRUE)
PyFalse == PyBool(FALSE)

EmptyDict == [k \in {} |-> PyFalse]

\* d[k] = v
Put(d, k, v) == [x \in (DOMAIN d) \cup {k} |-> IF x = k THEN v ELSE d[x]]

\* d.get(k, default)
Get(d, k, default) == IF k \in DOMAIN d THEN d[k] ELSE default

\* Python truthiness of a value stored in a trait record
Truthy(v) ==
    CASE v.kind = "bool" -> v.b
      [] v.kind = "int" -> v.n # 0
      [] OTHER -> v.s # <<>>

-----------------------------------------------------------------------------
(* Lexemes *)

Digits == {"0", "1", "2", "3", "4", "5", "6", "7", "8", "9"}

DigitValue(c) ==
    CASE c = "0" -> 0 [] c = "1" -> 1 [] c = "2" -> 2 [] c = "3" -> 3
      [] c = "4" -> 4 [] c = "5" -> 5 [] c = "6" -> 6 [] c = "7" -> 7
      [] c = "8" -> 8 [] c = "9" -> 9

\* str.isdigit(): non-empty and only digits
IsDigit(cs) == cs # <<>> /\ \A i \in 1..Len(cs) : cs[i] \in Digits

\* int(str) of a digit string
RECURSIVE ToInt(_)
ToInt(cs) ==
    IF cs = <<>> THEN 0
    ELSE 10 * ToInt(SubSeq(cs, 1, Len(cs) - 1)) + DigitValue(cs[Len(cs)])

\* the longest prefix of digits, what (\d+) takes of a bare token
RECURSIVE DigitPrefix(_)
DigitPrefix(cs) ==
    IF cs # <<>> /\ Head(cs) \in Digits
    THEN <<Head(cs)>> \o DigitPrefix(Tail(cs))
    ELSE <<>>

LexTrue == <<"t", "r", "u", "e">>
LexFalse == <<"f", "a", "l", "s", "e">>
LexLink == <<"l", "i", "n", "k">>
LexBackoff == <<"e", "x", "p", "+", "j", "i", "t", "t", "e", "r">>

-----------------------------------------------------------------------------
(* extract_overlay_traits *)

\* A body item is  key: value  with the value in one of the forms
\*   "quoted"  a double-quoted string, text its content
\*   "bare"    a run of word characters (digits, a word), text the run
\*   "other"   anything kv_pattern cannot start a value with (-5, a brace)
\* kv_pattern's groups 2, 3, 4 for an item; <<>> is Python's None
Group2(item) == IF item.form = "quoted" THEN item.text ELSE <<>>
Group3(item) == IF item.form = "bare" THEN DigitPrefix(item.text) ELSE <<>>
Group4(item) ==
    IF item.form = "bare" /\ DigitPrefix(item.text) = <<>> THEN item.text ELSE <<>>

KvMatches(item) ==
    \/ item.form = "quoted" /\ item.text # <<>>
    \/ item.form = "bare" /\ item.text # <<>>

\* value = group(2) or group(3) or group(4)
KvValue(item) ==
    IF Group2(item) # <<>> THEN Group2(item)
    ELSE IF Group3(item) # <<>> THEN Group3(item)
    ELSE Group4(item)

\* lines 92-97: the value is converted whatever group it came from
Convert(value) ==
    IF value # <<>> /\ IsDigit(value) THEN PyInt(ToInt(value))
    ELSE IF value = LexTrue THEN PyTrue
    ELSE IF value = LexFalse THEN PyFalse
    ELSE PyStr(value)

\* lines 84-98: the loop over kv_pattern's matches in a trait body
RECURSIVE TraitValues(_, _)
TraitValues(body, acc) ==
    IF body = <<>> THEN acc
    ELSE LET item == Head(body) IN
         TraitValues(Tail(body),
                     IF KvMatches(item)
                     THEN Put(acc, item.key, Convert(KvValue(item)))
                     ELSE acc)

\* apply_pattern: the body is [^}]+ closed by "})", so a body holding a
\* nested brace is not matched at all
ApplyMatches(stmt) == \A i \in 1..Len(stmt.body) : stmt.body[i].form # "nested"

\* lines 75-100: the loop over apply_pattern's matches
RECURSIVE OverlayTraitsFrom(_, _)
OverlayTraitsFrom(content, traits) ==
    IF content = <<>> THEN traits
    ELSE LET stmt == Head(content)
             forOp == Get(traits, stmt.op, EmptyDict)
         IN  OverlayTraitsFrom(Tail(content),
                 IF ApplyMatches(stmt)
                 THEN Put(traits, stmt.op,
                          Put(forOp, stmt.trait, TraitValues(stmt.body, EmptyDict)))
                 ELSE traits)

extract_overlay_traits(content) == OverlayTraitsFrom(content, EmptyDict)

-----------------------------------------------------------------------------
(* Scanners of the primary document *)

\* Items of the primary document, one shape for all:
\*   t = "trait"      an annotation line  @name  or  @name(...)
\*   t = "doc"        a /// line; marker: it holds "**Pagination**: Uses Link header"
\*   t = "operation"  operation name {
\*   t = "structure"  structure name { members }
\*   t = "scalar"     kw name   (string PersonName, boolean Flag)
ScalarKeywords == {"string", "integer", "long", "blob", "timestamp"}

\* the annotation lines directly above item i, group(1) of operation_pattern
RECURSIVE TraitsBlock(_, _)
TraitsBlock(content, i) ==
    IF i > 1 /\ content[i - 1].t = "trait"
    THEN TraitsBlock(content, i - 1) \cup {content[i - 1].name}
    ELSE {}

OperationIndexes(content) == {i \in 1..Len(content) : content[i].t = "operation"}

\* lines 44-52
OpInfo(traits_block) ==
    LET a == IF "readonly" \in traits_block
             THEN Put(EmptyDict, "readonly", PyTrue) ELSE EmptyDict
    IN  IF "idempotent" \in traits_block THEN Put(a, "idempotent", PyTrue) ELSE a

\* lines 40-54: a later declaration of the same name replaces an earlier one
RECURSIVE OperationsFrom(_, _, _)
OperationsFrom(content, i, acc) ==
    IF i > Len(content) THEN acc
    ELSE OperationsFrom(content, i + 1,
             IF content[i].t = "operation"
             THEN Put(acc, content[i].name, OpInfo(TraitsBlock(content, i)))
             ELSE acc)

extract_operations_with_traits(content) == OperationsFrom(content, 1, EmptyDict)

\* lines 116-122: @sensitive, then at once a scalar type declaration
extract_sensitive_types(content) ==
    {content[i + 1].name : i \in {j \in 1..(Len(content) - 1) :
        /\ content[j].t = "trait" /\ content[j].name = "sensitive"
        /\ content[j + 1].t = "scalar" /\ content[j + 1].kw \in ScalarKeywords}}

\* f'$.{field_name}'
JsonPath(field_name) == <<"$", ".", field_name>>

\* lines 153-159
RECURSIVE SensitiveFields(_, _)
SensitiveFields(members, types) ==
    IF members = <<>> THEN <<>>
    ELSE (IF Head(members).type \in types
          THEN <<JsonPath(Head(members).field)>> ELSE <<>>)
         \o SensitiveFields(Tail(members), types)

\* a faulty resolver: every structure is recorded, also with an empty list
RECURSIVE RedactionFromKeepEmpty(_, _, _, _)
RedactionFromKeepEmpty(content, i, types, acc) ==
    IF i > Len(content) THEN acc
    ELSE RedactionFromKeepEmpty(content, i + 1, types,
             IF content[i].t = "structure"
             THEN Put(acc, content[i].name, SensitiveFields(content[i].members, types))
             ELSE acc)

\* lines 149-162
RECURSIVE RedactionFrom(_, _, _, _)
RedactionFrom(content, i, types, acc) ==
    IF i > Len(content) THEN acc
    ELSE LET fields == IF content[i].t = "structure"
                       THEN SensitiveFields(content[i].members, types) ELSE <<>>
         IN  RedactionFrom(content, i + 1, types,
                 IF fields # <<>> THEN Put(acc, content[i].name, fields) ELSE acc)

extract_structures_with_sensitive_fields(content, types) ==
    RedactionFrom(content, 1, types, EmptyDict)

LinkStyle == Put(EmptyDict, "style", PyStr(LexLink))

\* the first item at or after position i that satisfies the test, 0 if none
FirstMarker(content, i) ==
    LET S == {j \in i..Len(content) : content[j].t = "doc" /\ content[j].marker}
    IN  IF S = {} THEN 0 ELSE CHOOSE j \in S : \A k \in S : j <= k

FirstOperation(content, i) ==
    LET S == {j \in i..Len(content) : content[j].t = "operation"}
    IN  IF S = {} THEN 0 ELSE CHOOSE j \in S : \A k \in S : j <= k

\* lines 177-185: doc_pattern under DOTALL: the marker line, then anything,
\* lazily, up to the next operation header; finditer resumes after it
RECURSIVE PaginationFrom(_, _, _)
PaginationFrom(content, pos, acc) ==
    LET m == FirstMarker(content, pos)
        o == IF m = 0 THEN 0 ELSE FirstOperation(content, m + 1)
    IN  IF o = 0 THEN acc
        ELSE PaginationFrom(content, o + 1, Put(acc, content[o].name, LinkStyle))

detect_pagination_from_docs(content) == PaginationFrom(content, 1, EmptyDict)

-----------------------------------------------------------------------------
(* build_behavior_model *)

NonBehaviorOverlays == {"examples.smithy", "tags.smithy"}

\* a faulty merge: the payload held is updated key by key
MergeOneKeyByKey(op_info, traits) ==
    LET merged(t) ==
            IF t \in DOMAIN op_info
            THEN [k \in (DOMAIN op_info[t]) \cup (DOMAIN traits[t]) |->
                     IF k \in DOMAIN traits[t] THEN traits[t][k] ELSE op_info[t][k]]
            ELSE traits[t]
        a == IF "pagination" \in DOMAIN traits
             THEN Put(op_info, "pagination", merged("pagination")) ELSE op_info
        b == IF "retry" \in DOMAIN traits
             THEN Put(a, "retry", merged("retry")) ELSE a
    IN  IF "idempotency" \in DOMAIN traits
        THEN Put(b, "idempotency", merged("idempotency")) ELSE b

\* lines 221-229, for one operation of the overlay
MergeOne(op_info, traits) ==
    LET a == IF "pagination" \in DOMAIN traits
             THEN Put(op_info, "pagination", traits["pagination"]) ELSE op_info
        b == IF "retry" \in DOMAIN traits
             THEN Put(a, "retry", traits["retry"]) ELSE a
    IN  IF "idempotency" \in DOMAIN traits
        THEN Put(b, "idempotency", traits["idempotency"]) ELSE b

\* a faulty merge: operations the accumulator does not hold are skipped
MergeOverlayDeclaredOnly(ops, overlay_traits) ==
    [op_name \in DOMAIN ops |->
        IF op_name \in DOMAIN overlay_traits
        THEN MergeOne(ops[op_name], overlay_traits[op_name])
        ELSE ops[op_name]]

\* lines 220-229
MergeOverlay(ops, overlay_traits) ==
    [op_name \in (DOMAIN ops) \cup (DOMAIN overlay_traits) |->
        IF op_name \in DOMAIN overlay_traits
        THEN MergeOne(Get(ops, op_name, EmptyDict), overlay_traits[op_name])
        ELSE ops[op_name]]

\* a faulty fallback: the prose descriptor replaces what the overlays set
ApplyDocPaginationAlways(ops, doc_pag) ==
    [op_name \in DOMAIN ops |->
        IF op_name \in DOMAIN doc_pag
        THEN Put(ops[op_name], "pagination", doc_pag[op_name])
        ELSE ops[op_name]]

\* lines 232-234
ApplyDocPagination(ops, doc_pag) ==
    [op_name \in DOMAIN ops |->
        IF op_name \in DOMAIN doc_pag /\ "pagination" \notin DOMAIN ops[op_name]
        THEN Put(ops[op_name], "pagination", doc_pag[op_name])
        ELSE ops[op_name]]

DefaultReadonlyRetry ==
    Put(Put(Put(EmptyDict, "max", PyInt(3)), "base_delay_seconds", PyInt(1)),
        "backoff", PyStr(LexBackoff))

DefaultRetry == Put(EmptyDict, "max", PyInt(0))

\* op_traits.get(flag) as a condition
Flag(op_traits, flag) == flag \in DOMAIN op_traits /\ Truthy(op_traits[flag])

\* a faulty order: the overlay's idempotency trait before the direct marker
IdempotentEntryOverlayFirst(op_traits, entry) ==
    IF "idempotency" \in DOMAIN op_traits
    THEN Put(entry, "idempotent", Get(op_traits["idempotency"], "supported", PyFalse))
    ELSE IF Flag(op_traits, "idempotent") THEN Put(entry, "idempotent", PyTrue)
    ELSE entry

\* lines 253-256
IdempotentEntry(op_traits, entry) ==
    IF Flag(op_traits, "idempotent") THEN Put(entry, "idempotent", PyTrue)
    ELSE IF "idempotency" \in DOMAIN op_traits
    THEN Put(entry, "idempotent", Get(op_traits["idempotency"], "supported", PyFalse))
    ELSE entry

\* a faulty default: the readonly flag is not looked at
RetryEntryNoRetries(op_traits, entry) ==
    IF "retry" \in DOMAIN op_traits THEN Put(entry, "retry", op_traits["retry"])
    ELSE Put(entry, "retry", DefaultRetry)

\* lines 261-268
RetryEntry(op_traits, entry) ==
    IF "retry" \in DOMAIN op_traits THEN Put(entry, "retry", op_traits["retry"])
    ELSE IF Flag(op_traits, "readonly") THEN Put(entry, "retry", DefaultReadonlyRetry)
    ELSE Put(entry, "retry", DefaultRetry)

\* lines 258-259
PaginationEntry(op_traits, entry) ==
    IF "pagination" \in DOMAIN op_traits
    THEN Put(entry, "pagination", op_traits["pagination"]) ELSE entry

\* lines 248-268
OpEntry(op_traits) ==
    LET a == IF Flag(op_traits, "readonly")
             THEN Put(EmptyDict, "readonly", PyTrue) ELSE EmptyDict
    IN  RetryEntry(op_traits, PaginationEntry(op_traits, IdempotentEntry(op_traits, a)))

\* lines 237-272; sensitiveTypes is kept as the set it is sorted from
FinalModel(ops, rules, types) ==
    [schema |-> "https://basecamp.com/schemas/behavior-model.json",
     version |-> "1.0.0",
     generated |-> TRUE,
     operations |-> [op_name \in DOMAIN ops |-> OpEntry(ops[op_name])],
     redaction |-> rules,
     sensitiveTypes |-> types]

\* nothing returned yet
NoModel ==
    [schema |-> "", version |-> "", generated |-> FALSE, operations |-> EmptyDict,
     redaction |-> EmptyDict, sensitiveTypes |-> {}]

-----------------------------------------------------------------------------
(* The run of build_behavior_model *)

\* lines 195-207
ScanPrimary ==
    /\ pc = "start"
    /\ operations' = extract_operations_with_traits(main_spec)
    /\ doc_pagination' = detect_pagination_from_docs(main_spec)
    /\ sensitive_types' = extract_sensitive_types(main_spec)
    /\ redaction_rules' =
           extract_structures_with_sensitive_fields(main_spec,
               extract_sensitive_types(main_spec))
    /\ pc' = "overlays"
    /\ UNCHANGED <<main_spec, overlay_files, idx, behavior_model>>

\* lines 213-214
SkipOverlay ==
    /\ pc = "overlays"
    /\ idx <= Len(overlay_files)
    /\ overlay_files[idx].name \in NonBehaviorOverlays
    /\ idx' = idx + 1
    /\ UNCHANGED <<pc, main_spec, overlay_files, operations, doc_pagination,
                   sensitive_types, redaction_rules, behavior_model>>

\* lines 216-229
ReadOverlay ==
    /\ pc = "overlays"
    /\ idx <= Len(overlay_files)
    /\ overlay_files[idx].name \notin NonBehaviorOverlays
    /\ operations' =
           MergeOverlay(operations, extract_overlay_traits(overlay_files[idx].content))
    /\ idx' = idx + 1
    /\ UNCHANGED <<pc, main_spec, overlay_files, doc_pagination,
                   sensitive_types, redaction_rules, behavior_model>>

\* lines 231-234, once the loop over the overlay files has ended (a missing
\* overlays directory, line 211, is a run with no overlay file)
DocPagination ==
    /\ pc = "overlays"
    /\ idx > Len(overlay_files)
    /\ operations' = ApplyDocPagination(operations, doc_pagination)
    /\ pc' = "finalize"
    /\ UNCHANGED <<main_spec, overlay_files, idx, doc_pagination,
                   sensitive_types, redaction_rules, behavior_model>>

\* lines 237-272
Finalize ==
    /\ pc = "finalize"
    /\ behavior_model' = FinalModel(operations, redaction_rules, sensitive_types)
    /\ pc' = "done"
    /\ UNCHANGED <<main_spec, overlay_files, idx, operations, doc_pagination,
                   sensitive_types, redaction_rules>>

Next == ScanPrimary \/ SkipOverlay \/ ReadOverlay \/ DocPagination \/ Finalize

-----------------------------------------------------------------------------
(* Inputs: the documents a run reads *)

MaxPrimaryLen == 3
MaxApply == 2

SeqsUpTo(S, n) == UNION {[1..k -> S] : k \in 0..n}

Trait(name) ==
    [t |-> "trait", name |-> name, marker |-> FALSE, members |-> <<>>, kw |-> ""]
Doc(marker) ==
    [t |-> "doc", name |-> "", marker |-> marker, members |-> <<>>, kw |-> ""]
Operation(name) ==
    [t |-> "operation", name |-> name, marker |-> FALSE, members |-> <<>>, kw |-> ""]
Structure(name, members) ==
    [t |-> "structure", name |-> name, marker |-> FALSE, members |-> members, kw |-> ""]
Scalar(kw, name) ==
    [t |-> "scalar", name |-> name, marker |-> FALSE, members |-> <<>>, kw |-> kw]
Member(field, type) == [field |-> field, type |-> type]

IsDecl(item) == item.t \in {"operation", "structure", "scalar"}

\* a Smithy model names each shape once
UniqueNames(content) ==
    \A i, j \in 1..Len(content) :
        (i # j /\ IsDecl(content[i]) /\ IsDecl(content[j]))
            => content[i].name # content[j].name

PrimaryDocs(items, n) == {c \in SeqsUpTo(items, n) : UniqueNames(c)}

Item(key, form, text) == [key |-> key, form |-> form, text |-> text]
Apply(op, trait, body) == [op |-> op, trait |-> trait, body |-> body]

BehaviorNames ==
    <<"pagination.smithy", "retry.smithy", "idempotency.smithy",
      "behavior.smithy", "extra.smithy", "more.smithy">>

\* the statements stmts laid out in files: a new file starts after each
\* statement whose index is in cuts; file number skipped (0: none) is one of
\* the two non-behavior overlays
FileOf(cuts, i) == 1 + Cardinality({c \in cuts : c < i})
FileContent(stmts, cuts, k) ==
    LET I == {i \in 1..Len(stmts) : FileOf(cuts, i) = k}
        lo == CHOOSE i \in I : \A j \in I : i <= j
        hi == CHOOSE i \in I : \A j \in I : i >= j
    IN  SubSeq(stmts, lo, hi)
FileName(k, skipped) ==
    IF k # skipped THEN BehaviorNames[k]
    ELSE IF k = 1 THEN "examples.smithy" ELSE "tags.smithy"
Layout(stmts, cuts, skipped) ==
    [k \in 1..(Cardinality(cuts) + 1) |->
        [name |-> FileName(k, skipped), content |-> FileContent(stmts, cuts, k)]]

OverlayDirs(statements, n) ==
    {<<>>} \cup
    UNION {UNION {{Layout(stmts, cuts, skipped) :
                      skipped \in 0..(Cardinality(cuts) + 1)} :
                  cuts \in SUBSET (1..(Len(stmts) - 1))} :
           stmts \in SeqsUpTo(statements, n) \ {<<>>}}

InitFrom(docs, dirs) ==
    /\ pc = "start"
    /\ main_spec \in docs
    /\ overlay_files \in dirs
    /\ idx = 1
    /\ operations = EmptyDict
    /\ doc_pagination = EmptyDict
    /\ sensitive_types = {}
    /\ redaction_rules = EmptyDict
    /\ behavior_model = NoModel

-----------------------------------------------------------------------------
(* Input families.  Every specification runs the same program, Next; each  *)
(* draws the documents from the part of the input space its claims are     *)
(* about.                                                                  *)

LexTwo == <<"2">>
LexFive == <<"5">>
LexCursor == <<"c", "u", "r", "s", "o", "r">>
BodyLink == <<Item("style", "quoted", LexLink)>>
BodyCursor == <<Item("style", "quoted", LexCursor)>>
BodyMax == <<Item("max", "bare", LexTwo)>>
BodyUnsupported == <<Item("supported", "bare", LexFalse)>>
BodySupportedOne == <<Item("supported", "bare", <<"1">>)>>
BodyNegative == <<Item("max", "other", <<"-", "1">>)>>
BodyNested == <<Item("policy", "nested", <<>>)>>

\* one directory holding a skipped and a read overlay
TwoFiles ==
    {Layout(<<Apply("ListA", "retry", BodyMax), Apply("ListA", "retry", BodyMax)>>,
            {1}, 1)}

\* idempotency: the direct marker against overlay idempotency traits
IdempotentDocs ==
    PrimaryDocs({Trait("idempotent"), Trait("readonly"), Operation("ListA"),
                 Operation("PutB")}, MaxPrimaryLen)
IdempotentDirs ==
    OverlayDirs({Apply(op, "idempotency", body) :
                    op \in {"ListA", "PutB"},
                    body \in {BodyUnsupported, BodySupportedOne, BodyMax}},
                MaxApply)
InitIdempotent == InitFrom(IdempotentDocs, IdempotentDirs)
SpecIdempotent == InitIdempotent /\ [][Next]_vars

\* retry: the default policy against overlay traits of every kind
RetryDocs ==
    PrimaryDocs({Trait("readonly"), Doc(TRUE), Operation("ListA"), Operation("PutB")},
                MaxPrimaryLen)
RetryDirs ==
    OverlayDirs({Apply("ListA", "pagination", BodyMax),
                 Apply("ListA", "idempotency", BodyMax),
                 Apply("ListA", "retry", BodyMax),
                 Apply("ListA", "retry", BodyNegative),
                 Apply("ListA", "retry", BodyNested)},
                MaxApply)
InitRetry == InitFrom(RetryDocs, RetryDirs)
SpecRetry == InitRetry /\ [][Next]_vars

\* pagination: the prose marker against overlay pagination traits
PaginationDocs ==
    PrimaryDocs({Doc(TRUE), Trait("readonly"), Structure("Note", <<>>),
                 Operation("ListA"), Operation("ListB")}, MaxPrimaryLen)
PaginationDirs ==
    OverlayDirs({Apply(op, "pagination", body) :
                    op \in {"ListA", "ListB"},
                    body \in {BodyCursor, BodyMax}},
                MaxApply)
InitPagination == InitFrom(PaginationDocs, PaginationDirs)
SpecPagination == InitPagination /\ [][Next]_vars

\* redaction: sensitive scalar types and the structures that use them
MaxMembers == 2
StructureNames == {"Person", "Note"}
MemberItems ==
    {Member("name", "PersonName"), Member("email", "PersonName"),
     Member("age", "Integer")}
StructureItems ==
    {Structure(name, members) :
        name \in StructureNames, members \in SeqsUpTo(MemberItems, MaxMembers)}
Preambles ==
    {<<>>,
     <<Scalar("string", "PersonName")>>,
     <<Trait("sensitive"), Scalar("string", "PersonName")>>,
     <<Trait("sensitive"), Scalar("boolean", "PersonName")>>,
     <<Trait("sensitive"), Doc(FALSE), Scalar("string", "PersonName")>>,
     <<Trait("sensitive"), Scalar("string", "PersonName"),
       Trait("sensitive"), Scalar("integer", "Integer")>>}
RedactionDocs ==
    {pre \o structs :
        pre \in Preambles,
        structs \in PrimaryDocs(StructureItems, Cardinality(StructureNames))}
InitRedaction == InitFrom(RedactionDocs, TwoFiles)
SpecRedaction == InitRedaction /\ [][Next]_vars

\* values: every form the value of a trait body can take, applied to an
\* operation the primary document declares
ValueForms ==
    {<<form, text>> : form \in {"quoted", "bare"}, text \in {LexFive, LexTrue, LexLink}}
    \cup {<<"other", <<"-", "1">>>>, <<"nested", <<>>>>}
ValueStatements ==
    {Apply("ListA", "retry", <<Item("max", v[1], v[2])>>) : v \in ValueForms}
    \cup {Apply("ListA", "idempotency", <<Item("supported", v[1], v[2])>>) :
             v \in {w \in ValueForms : w[1] # "quoted"}}
InitValues ==
    InitFrom({c \in PrimaryDocs({Trait("readonly"), Operation("ListA")}, MaxPrimaryLen) :
                 \E i \in 1..Len(c) : c[i].t = "operation"},
             OverlayDirs(ValueStatements, MaxApply))
SpecValues == InitValues /\ [][Next]_vars

\* merging: several statements for one operation and trait, other traits,
\* other operations, operations the primary document does not declare
MergeDocs ==
    PrimaryDocs({Trait("readonly"), Operation("ListA"), Operation("PutB")},
                MaxPrimaryLen)
MergeDirs ==
    OverlayDirs({Apply("ListA", trait, body) :
                    trait \in {"pagination", "retry", "idempotency"},
                    body \in {BodyLink, BodyMax}}
                \cup {Apply("PutB", "retry", BodyMax),
                      Apply("PutB", "pagination", BodyLink),
                      Apply("PutB", "custom", BodyLink)},
                MaxApply)
InitMerge == InitFrom(MergeDocs, MergeDirs)
SpecMerge == InitMerge /\ [][Next]_vars

-----------------------------------------------------------------------------
(* What a run has read, for the statements of the properties *)

\* the operations the primary document declares
Declared == {main_spec[i].name : i \in OperationIndexes(main_spec)}

\* the operations declared with @idempotent directly above them
DirectlyIdempotent ==
    {main_spec[i].name :
        i \in {j \in OperationIndexes(main_spec) :
                  "idempotent" \in TraitsBlock(main_spec, j)}}

\* the apply statements matched in the first n overlay files, in the order
\* the loop of lines 212-229 meets them
RECURSIVE ReadStatements(_, _)
ReadStatements(files, n) ==
    IF n = 0 THEN <<>>
    ELSE ReadStatements(files, n - 1) \o
         (IF files[n].name \in NonBehaviorOverlays THEN <<>>
          ELSE SelectSeq(files[n].content, ApplyMatches))

Read == ReadStatements(overlay_files, idx - 1)

\* the index in Read of the last statement for (op, trait), 0 if there is none
LastApplied(op, trait) ==
    LET I == {i \in 1..Len(Read) : Read[i].op = op /\ Read[i].trait = trait}
    IN  IF I = {} THEN 0 ELSE CHOOSE i \in I : \A j \in I : j <= i

Payload(stmt) == TraitValues(stmt.body, EmptyDict)

MergedTraits == {"pagination", "retry", "idempotency"}

\* build_behavior_model as a function of the documents
RECURSIVE MergeFiles(_, _, _)
MergeFiles(ops, files, n) ==
    IF n = 0 THEN ops
    ELSE IF files[n].name \in NonBehaviorOverlays THEN MergeFiles(ops, files, n - 1)
    ELSE MergeOverlay(MergeFiles(ops, files, n - 1),
                      extract_overlay_traits(files[n].content))

build_behavior_model(main, files) ==
    FinalModel(
        ApplyDocPagination(
            MergeFiles(extract_operations_with_traits(main), files, Len(files)),
            detect_pagination_from_docs(main)),
        extract_structures_with_sensitive_fields(main, extract_sensitive_types(main)),
        extract_sensitive_types(main))

Entries == behavior_model.operations

-----------------------------------------------------------------------------
(* Properties *)

\* C1: an operation declared with a direct @idempotent marker has
\* idempotent = true in the final model, whatever idempotency traits the
\* overlays apply to it.
C1_DirectIdempotentWins ==
    pc = "done" =>
        \A op \in DirectlyIdempotent :
            /\ op \in DOMAIN Entries
            /\ "idempotent" \in DOMAIN Entries[op]
            /\ Entries[op]["idempotent"] = PyTrue

\* a directly idempotent operation whose merged overlay trait says otherwise
C1_Witness ==
    /\ pc = "done"
    /\ \E op \in DirectlyIdempotent :
        /\ op \in DOMAIN operations
        /\ "idempotency" \in DOMAIN operations[op]
        /\ Get(operations[op]["idempotency"], "supported", PyFalse) = PyFalse
        /\ LastApplied(op, "idempotency") # 0
        /\ Entries[op]["idempotent"] = PyTrue

\* C2: an operation no read overlay applied a retry trait to gets the
\* default policy: {max: 3, base_delay_seconds: 1, backoff: "exp+jitter"}
\* when its readonly flag is true, {max: 0} otherwise.
C2_DefaultRetry ==
    pc = "done" =>
        \A op \in DOMAIN Entries :
            LastApplied(op, "retry") = 0 =>
                /\ "retry" \in DOMAIN Entries[op]
                /\ Entries[op]["retry"] =
                       IF Get(Entries[op], "readonly", PyFalse) = PyTrue
                       THEN [max |-> PyInt(3), base_delay_seconds |-> PyInt(1),
                             backoff |-> PyStr(LexBackoff)]
                       ELSE [max |-> PyInt(0)]

\* a readonly operation with merged pagination and a mutating one, both
\* without a retry trait
C2_Witness ==
    /\ pc = "done"
    /\ \E ro, rw \in DOMAIN Entries :
        /\ LastApplied(ro, "retry") = 0
        /\ LastApplied(ro, "pagination") # 0
        /\ "readonly" \in DOMAIN Entries[ro]
        /\ Entries[ro]["retry"]["max"] = PyInt(3)
        /\ LastApplied(rw, "retry") = 0
        /\ "readonly" \notin DOMAIN Entries[rw]
        /\ Entries[rw]["retry"]["max"] = PyInt(0)

\* C3: for an operation the prose detector reports, the final pagination is
\* the payload of the last pagination trait a read overlay applied to it,
\* and the prose descriptor {style: "link"} only when there is none.
C3_OverlayPaginationWins ==
    pc = "done" =>
        \A op \in DOMAIN doc_pagination :
            LET last == LastApplied(op, "pagination") IN
            /\ op \in DOMAIN Entries
            /\ "pagination" \in DOMAIN Entries[op]
            /\ Entries[op]["pagination"] =
                   IF last # 0 THEN Payload(Read[last])
                   ELSE [style |-> PyStr(LexLink)]

\* a prose-paginated operation whose overlay payload differs from the
\* prose descriptor
C3_Witness ==
    /\ pc = "done"
    /\ \E op \in DOMAIN doc_pagination :
        /\ LastApplied(op, "pagination") # 0
        /\ Entries[op]["pagination"] = Payload(Read[LastApplied(op, "pagination")])
        /\ Entries[op]["pagination"] # [style |-> PyStr(LexLink)]

\* the members of a structure whose type is sensitive, and their paths in
\* declaration order
Qualifying(members, types) == {i \in 1..Len(members) : members[i].type \in types}
ExpectedPaths(members, types) ==
    LET Q == Qualifying(members, types) IN
    [k \in 1..Cardinality(Q) |->
        LET i == CHOOSE i \in Q : Cardinality({j \in Q : j <= i}) = k
        IN  <<"$", ".", members[i].field>>]
StructureIndexes == {i \in 1..Len(main_spec) : main_spec[i].t = "structure"}

\* C4: the redaction mapping has a key for a structure exactly when one of
\* its members has a sensitive type, and the key's list is the $.field of
\* those members, in declaration order, and of no other member.
C4_RedactionRules ==
    pc # "start" =>
        /\ DOMAIN redaction_rules \subseteq {main_spec[i].name : i \in StructureIndexes}
        /\ \A i \in StructureIndexes :
            LET name == main_spec[i].name
                members == main_spec[i].members
            IN  /\ name \in DOMAIN redaction_rules
                    <=> Qualifying(members, sensitive_types) # {}
                /\ name \in DOMAIN redaction_rules
                    => redaction_rules[name] = ExpectedPaths(members, sensitive_types)

\* one structure with a sensitive and a plain member, which has a key, and
\* one with members and no sensitive one, which has none
C4_Witness ==
    /\ pc # "start"
    /\ \E i, j \in StructureIndexes :
        /\ Qualifying(main_spec[i].members, sensitive_types) # {}
        /\ Cardinality(Qualifying(main_spec[i].members, sensitive_types))
               < Len(main_spec[i].members)
        /\ main_spec[i].name \in DOMAIN redaction_rules
        /\ main_spec[j].members # <<>>
        /\ main_spec[j].name \notin DOMAIN redaction_rules

\* C5 as stated: every key of the final operations map is an operation the
\* primary document declares.
C5_OnlyDeclaredOperations ==
    pc = "done" => DOMAIN Entries \subseteq Declared

\* C5 amended: the keys of the final operations map are the operations the
\* primary document declares and the targets of the apply statements of the
\* overlays read; a statement for an undeclared name adds an operation.
C5_DeclaredOrApplied ==
    pc = "done" =>
        DOMAIN Entries = Declared \cup {Read[i].op : i \in 1..Len(Read)}

\* an operation of the output that the primary document does not declare
C5_Witness ==
    /\ pc = "done"
    /\ \E op \in DOMAIN Entries : op \notin Declared

\* the overlay files without statement j of file k
Without(files, k, j) ==
    [files EXCEPT ![k].content =
        SubSeq(@, 1, j - 1) \o SubSeq(@, j + 1, Len(@))]
NoPair(stmt) == \A i \in 1..Len(stmt.body) : ~KvMatches(stmt.body[i])

\* C6: an apply statement whose body holds no pair of the flat key:value
\* grammar changes nothing: the final model is the model of the same
\* documents without the statement.
C6_NoPairChangesNothing ==
    pc = "done" =>
        \A k \in 1..Len(overlay_files) :
            \A j \in 1..Len(overlay_files[k].content) :
                (/\ overlay_files[k].name \notin NonBehaviorOverlays
                 /\ NoPair(overlay_files[k].content[j]))
                    => behavior_model =
                           build_behavior_model(main_spec, Without(overlay_files, k, j))

\* C7: in every entry of the final model idempotent is absent or a boolean,
\* and readonly is absent or true.
C7_FlagsAreBooleans ==
    pc = "done" =>
        \A op \in DOMAIN Entries :
            /\ "idempotent" \in DOMAIN Entries[op]
                   => Entries[op]["idempotent"].kind = "bool"
            /\ "readonly" \in DOMAIN Entries[op]
                   => Entries[op]["readonly"] = PyTrue

\* the marker phrase stands in the documentation directly ahead of item i:
\* only documentation and annotation lines lie between
DirectlyAhead(content, i) ==
    \E m \in 1..(i - 1) :
        /\ content[m].t = "doc" /\ content[m].marker
        /\ \A k \in (m + 1)..(i - 1) : content[k].t \in {"doc", "trait"}

\* C8: the prose detector maps an operation to {style: "link"} exactly when
\* the marker phrase stands directly ahead of its declaration; a marker
\* separated from the next operation by another declaration does not count.
C8_MarkerDirectlyAhead ==
    pc # "start" =>
        \A i \in OperationIndexes(main_spec) :
            /\ main_spec[i].name \in DOMAIN doc_pagination
                   <=> DirectlyAhead(main_spec, i)
            /\ main_spec[i].name \in DOMAIN doc_pagination
                   => doc_pagination[main_spec[i].name] = [style |-> PyStr(LexLink)]

\* the value the form of an item calls for
ValueByForm(item) ==
    IF item.form = "quoted" THEN PyStr(item.text)
    ELSE IF IsDigit(item.text) THEN PyInt(ToInt(item.text))
    ELSE IF item.text = LexTrue THEN PyTrue
    ELSE IF item.text = LexFalse THEN PyFalse
    ELSE PyStr(item.text)

\* C9: a value is converted by its form: digits to an integer, the bare
\* words true and false to booleans, any other bare word and every quoted
\* string to a string, also a quoted string of digits or "true" or "false".
C9_ValueByForm ==
    pc # "start" =>
        \A op \in DOMAIN operations :
            \A trait \in MergedTraits \cap DOMAIN operations[op] :
                LET last == LastApplied(op, trait) IN
                last # 0 =>
                    \A n \in 1..Len(Read[last].body) :
                        LET item == Read[last].body[n] IN
                        (/\ KvMatches(item)
                         /\ \A later \in (n + 1)..Len(Read[last].body) :
                                Read[last].body[later].key # item.key)
                            => /\ item.key \in DOMAIN operations[op][trait]
                               /\ operations[op][trait][item.key] = ValueByForm(item)

\* C10: after the overlays read so far are merged, the trait held for an
\* (operation, trait) pair is the whole payload of the last statement for
\* that pair, and nothing is held for a pair no statement names.
C10_LastStatementWins ==
    pc = "overlays" =>
        \A op \in (DOMAIN operations) \cup {Read[i].op : i \in 1..Len(Read)} :
            \A trait \in MergedTraits :
                LET last == LastApplied(op, trait) IN
                IF last = 0
                THEN op \in DOMAIN operations => trait \notin DOMAIN operations[op]
                ELSE /\ op \in DOMAIN operations
                     /\ trait \in DOMAIN operations[op]
                     /\ operations[op][trait] = Payload(Read[last])

\* two overlay documents read, the second replacing the payload the first
\* set for the same pair by one with other keys
C10_Witness ==
    /\ pc = "overlays"
    /\ idx > Len(overlay_files)
    /\ Len(overlay_files) = 2
    /\ \A k \in 1..2 : overlay_files[k].name \notin NonBehaviorOverlays
    /\ Len(Read) = 2
    /\ Read[1].op = Read[2].op
    /\ Read[1].trait = Read[2].trait
    /\ Read[1].trait \in MergedTraits
    /\ DOMAIN Payload(Read[1]) # DOMAIN Payload(Read[2])
    /\ operations[Read[2].op][Read[2].trait] = Payload(Read[2])

====
